---- MODULE Spec2Model ----
(***************************************************************************)
(* Topic-based signaling relay of src/server.js.                           *)
(*                                                                         *)
(* The file holds two listings of the server: lines 1-186 (admission gate, *)
(* capped subscribe, backpressure-aware send) and lines 188-344 (a listing *)
(* without gate, cap or backpressure check).  The variable `listing` says  *)
(* which of the two is running.  Spec is the first listing; SpecListings   *)
(* is either of them, with the handlers that change the registry and the   *)
(* long topics lists; SpecShutdown is the first listing with its SIGTERM   *)
(* handler; SpecFanout is a publish with several subscribers; SpecOrder    *)
(* keeps the history of the publishes.                                     *)
(*                                                                         *)
(* Every handler is one atomic action (node runs a callback to completion).*)
(* The variable `last` is the log of the handler that ran last: what it    *)
(* was given and what it handed to the transports (send, close, terminate) *)
(* - effects the program has but does not keep in its own state.           *)
(***************************************************************************)
EXTENDS Integers, Sequences, FiniteSets

\* ------------------------------------------------------------------ bounds
NumConns == 3        \* sockets of the model
FewConns == 2        \* sockets that arrive in the runs other than the fan-out ones
LongLen == 100       \* length of the long topics list a client may send
MaxShort == 2        \* longest of the short topics lists a client may send
MissedCap == 2       \* the count of unanswered probes saturates here
MaxTrace == 3        \* publishes a traced run handles

\* ------------------------------------------------------- program constants
TopicCap == 64               \* list.slice(0, 64)
BackpressureLimit == 1000000 \* conn.bufferedAmount > 1_000_000
wsReadyStateOpen == 1
WS_PATH == "/ws"
ALLOWED_ORIGINS == {"https://collabo-r8vr1547i-collabo-teams-projects.vercel.app",
                    "http://localhost:3000"}

\* ws readyState values
CONNECTING == wsReadyStateOpen - 1
OPEN == wsReadyStateOpen
CLOSING == wsReadyStateOpen + 1
CLOSED == wsReadyStateOpen + 2

Conns == 1..NumConns
Few == 1..FewConns

\* ------------------------------------------------------------- JSON values
\* A JSON value is [type, v]: a string carries its characters (as codes),
\* a number its value; undefined is an absent field.
Str(s) == [type |-> "string", v |-> s]
Num(n) == [type |-> "number", v |-> <<n>>]
Undefined == [type |-> "undefined", v |-> <<>>]

\* typeof x === 'string'
IsString(x) == x.type = "string"

\* JS truthiness of a value: !!x
Truthy(x) ==
  CASE x.type = "string" -> Len(x.v) > 0
    [] x.type = "number" -> x.v[1] # 0
    [] OTHER -> FALSE

\* the topic named by the one-character string n
T(n) == Str(<<n>>)
EmptyName == Str(<<>>)

\* --------------------------------------------------------- client inputs
ShortEntries == {T(1), EmptyName, Num(7)}

RECURSIVE SeqsUpTo(_, _)
SeqsUpTo(S, n) ==
  IF n = 0 THEN {<<>>}
  ELSE LET shorter == SeqsUpTo(S, n - 1)
       IN  shorter \cup {Append(s, e) : s \in {x \in shorter : Len(x) = n - 1}, e \in S}

LongList == [i \in 1..LongLen |-> T(i)]

\* message.topics: absent, a non-array value, or an array
ArrayField(l) == [present |-> TRUE, isArray |-> TRUE, items |-> l]

TopicsFields ==
  {[present |-> FALSE, isArray |-> FALSE, items |-> <<>>],
   [present |-> TRUE, isArray |-> FALSE, items |-> <<>>]}
  \cup {ArrayField(l) : l \in SeqsUpTo(ShortEntries, MaxShort)}

LongField == ArrayField(LongList)

\* the lists of the runs that include the long one
FewFields ==
  {ArrayField(<<T(1)>>), ArrayField(<<EmptyName, Num(7)>>),
   [present |-> TRUE, isArray |-> FALSE, items |-> <<>>]}
CapFields == FewFields \cup {LongField}

\* the long list last name first, and the lists of an unsubscribe
RevLongList == [i \in 1..LongLen |-> T(LongLen + 1 - i)]
UnsubFields == FewFields \cup {ArrayField(RevLongList)}

\* the inputs of the runs that keep the history of the publishes
OrderFields == {ArrayField(<<T(1)>>)}
OrderTopics == {T(1), T(2)}

Payloads == {1, 2}
PublishTopics == {T(1), T(2), EmptyName, Num(7), Undefined}

\* what the transport of a target holds for one send(): its bufferedAmount,
\* and whether conn.send throws
BufferedAmounts == {0, BackpressureLimit, BackpressureLimit + 1}
Conditions ==
  {[buf |-> b, throws |-> FALSE] : b \in BufferedAmounts}
  \cup {[buf |-> 0, throws |-> TRUE]}

NoMsg == [type |-> "none", topic |-> Undefined, payload |-> 0]
PublishMsg(t, p) == [type |-> "publish", topic |-> t, payload |-> p]
PongMsg == [type |-> "pong", topic |-> Undefined, payload |-> 0]

\* ------------------------------------------------------------------ state
VARIABLES
  listing,          \* 1: lines 1-186, 2: lines 188-344
  topics,           \* const topics = new Map(): topic name -> Set of sockets
  subscribedTopics, \* per socket: const subscribedTopics = new Set()
  isAlive,          \* per socket: socket.isAlive
  readyState,       \* per socket: socket.readyState
  clients,          \* wss.clients
  closeRuns,        \* per socket: runs of its 'close' handler
  missed,           \* per socket: heartbeat probes since its last pong
  process,          \* "running", "crashed" by an uncaught exception,
                    \* or "exited" by process.exit(0)
  checkAliveInterval, \* the heartbeat timer: "set" or "cleared"
  listening,        \* the HTTP server accepts connections
  trace,            \* history of the publishes, kept where trace.on
  last              \* log of the last handler

vars == <<listing, topics, subscribedTopics, isAlive, readyState, clients,
          closeRuns, missed, process, checkAliveInterval, listening, trace,
          last>>

relay == <<topics, subscribedTopics, isAlive, readyState, clients>>

\* -------------------------------------------------------------- the Map
\* The strings a client of this model can name a topic by; only strings
\* ever become keys of the registry.
Names == {T(i) : i \in 1..LongLen} \cup {EmptyName}

\* the slot of the table that holds the entry of the string k
Key(k) == IF Len(k.v) = 0 THEN 0 ELSE k.v[1]

\* A Map is a table with one slot per name: <<>> where the Map has no entry
\* for the key, <<S>> where it maps the key to the Set S.  A value that is
\* no string (a number, undefined) is the key of no entry.
EmptyMap == [i \in 0..LongLen |-> <<>>]
MapHas(m, k) == IsString(k) /\ m[Key(k)] # <<>>
MapGet(m, k) == m[Key(k)][1]
MapSet(m, k, val) == [m EXCEPT ![Key(k)] = <<val>>]
MapDelete(m, k) == [m EXCEPT ![Key(k)] = <<>>]
MapKeys(m) == {k \in Names : MapHas(m, k)}

\* ------------------------------------------------------------ handler log
NoCalls == [c \in Conns |-> 0]
NoWire == [c \in Conns |-> <<>>]

\* op, by: the handler and its socket (0: none); rounds: the rounds of its
\* loop that got past the test at their head (the lines it logs: "Join
\* room", "Left room"; for unsubscribe the topics it found in the registry);
\* changed: it changed the registry or a subscribedTopics set;
\* handoff: the upgrade was handed to ws; calls[r]: calls of send(r, ...);
\* wire[r]: the messages passed to r.send(...); closeReq: the sockets
\* close() or terminate() was called on
Log(op, by) ==
  [op |-> op, by |-> by, rounds |-> 0, changed |-> FALSE, handoff |-> FALSE,
   calls |-> NoCalls, wire |-> NoWire, closeReq |-> {}]

\* ---------------------------------------------------------- admission gate
\* req.url of an upgrade request, and what new URL(req.url, 'http://x')
\* makes of it: the pathname, or a TypeError for a URL that does not parse.
RequestUrls == {"/ws", "/ws?room=a", "/ws/", "/", "/healthz", "/WS", "//"}

UrlParses(url) == url # "//"

UrlPathname(url) ==
  CASE url = "/ws" -> "/ws"
    [] url = "/ws?room=a" -> "/ws"
    [] url = "/ws/" -> "/ws/"
    [] url = "/" -> "/"
    [] url = "/healthz" -> "/healthz"
    [] url = "/WS" -> "/WS"

\* req.headers.origin: <<>> when the header is absent, <<value>> otherwise
OriginHeaders ==
  {<<>>, <<"">>, <<"null">>, <<"https://evil.example">>}
  \cup {<<o>> : o \in ALLOWED_ORIGINS}

\* JS truthiness of req.headers.origin
OriginTruthy(origin) == origin # <<>> /\ origin[1] # ""

\* the decision of server.on('upgrade'): TRUE hands the request to ws
GateAccepts(url, origin) ==
  IF ~UrlParses(url) THEN FALSE                          \* catch { destroy }
  ELSE IF UrlPathname(url) # WS_PATH THEN FALSE
  ELSE IF OriginTruthy(origin) /\ origin[1] \notin ALLOWED_ORIGINS THEN FALSE
  ELSE TRUE

\* wss.on('connection'): the state of a freshly accepted socket c
Connection(c) ==
  /\ readyState' = [readyState EXCEPT ![c] = OPEN]
  /\ clients' = clients \cup {c}
  /\ isAlive' = [isAlive EXCEPT ![c] = TRUE]
  /\ subscribedTopics' = [subscribedTopics EXCEPT ![c] = {}]
  /\ UNCHANGED <<topics, closeRuns, missed>>

\* server.on('upgrade') of the first listing, for the socket that would
\* become connection c
Upgrade(c, url, origin) ==
  /\ listing = 1
  /\ process = "running"
  /\ listening
  /\ readyState[c] = CONNECTING
  /\ \A d \in Conns : d < c => readyState[d] # CONNECTING
  /\ IF GateAccepts(url, origin)
        THEN Connection(c)
        ELSE UNCHANGED <<topics, subscribedTopics, isAlive, readyState,
                         clients, closeRuns, missed>>
  /\ last' = [Log("upgrade", c) EXCEPT !.handoff = GateAccepts(url, origin)]
  /\ UNCHANGED <<listing, checkAliveInterval, listening, trace,
                 process>>

\* second listing: new ws.Server({ server }) accepts every upgrade request
Upgrade2(c, url, origin) ==
  /\ listing = 2
  /\ process = "running"
  /\ listening
  /\ readyState[c] = CONNECTING
  /\ \A d \in Conns : d < c => readyState[d] # CONNECTING
  /\ Connection(c)
  /\ last' = [Log("upgrade", c) EXCEPT !.handoff = TRUE]
  /\ UNCHANGED <<listing, checkAliveInterval, listening, trace,
                 process>>

\* ------------------------------------------------------- message handlers
\* Receiving that goes on after the 'close' event
ReceivingAfterClose(c) ==
  /\ process = "running"
  /\ readyState[c] \in {OPEN, CLOSING, CLOSED}

\* socket.on('message') runs while the socket still receives: from the
\* 'connection' event until its 'close' event.
Receiving(c) ==
  /\ process = "running"
  /\ c \in clients
  /\ readyState[c] \in {OPEN, CLOSING}

Min(a, b) == IF a < b THEN a ELSE b

\* list.slice(0, n)
Slice(list, n) == SubSeq(list, 1, Min(Len(list), n))

\* Array.isArray(message.topics) ? message.topics : []
TopicList(field) == IF field.present /\ field.isArray THEN field.items ELSE <<>>

\* SubscribeOne with a fresh Set put in place of the topic's own
SubscribeOneFresh(st, c, topicName) ==
  IF ~IsString(topicName) \/ ~Truthy(topicName) THEN st
  ELSE [topics |-> MapSet(st.topics, topicName, {c}),
        mine |-> st.mine \cup {topicName},
        rounds |-> st.rounds + 1]

\* The loops over a topics list run its entries first to last; they are
\* written as the run over list[lo..mid] followed by the run over
\* list[mid+1..hi], which keeps the evaluation shallow on long lists.
\* Computed(st) is TRUE; testing it has st evaluated before it is passed on.
Computed(st) == st.rounds = st.rounds

\* one round of the subscribe loop (lines 97-104) on
\* st = [topics, mine, rounds]
SubscribeOne(st, c, topicName) ==
  IF ~IsString(topicName) \/ ~Truthy(topicName) THEN st
  ELSE LET subscribers == IF MapHas(st.topics, topicName)
                            THEN MapGet(st.topics, topicName) ELSE {}
       IN  [topics |-> MapSet(st.topics, topicName, subscribers \cup {c}),
            mine |-> st.mine \cup {topicName},
            rounds |-> st.rounds + 1]

RECURSIVE SubscribeLoop(_, _, _, _, _)
SubscribeLoop(st, c, list, lo, hi) ==
  IF lo > hi THEN st
  ELSE IF lo = hi THEN SubscribeOne(st, c, list[lo])
  ELSE LET mid == (lo + hi) \div 2
           first == SubscribeLoop(st, c, list, lo, mid)
       IN  IF Computed(first) THEN SubscribeLoop(first, c, list, mid + 1, hi) ELSE st

\* case 'subscribe' (lines 93-108)
SubscribeResult(tp, mine, c, field) ==
  LET list == Slice(TopicList(field), TopicCap)
  IN  SubscribeLoop([topics |-> tp, mine |-> mine, rounds |-> 0],
                    c, list, 1, Len(list))

Subscribe(c, field) ==
  /\ listing = 1
  /\ Receiving(c)
  /\ LET r == SubscribeResult(topics, subscribedTopics[c], c, field)
     IN  /\ topics' = r.topics
         /\ subscribedTopics' = [subscribedTopics EXCEPT ![c] = r.mine]
         /\ last' = [Log("subscribe", c) EXCEPT
                      !.rounds = r.rounds,
                      !.changed = (r.topics # topics \/ r.mine # subscribedTopics[c])]
  /\ UNCHANGED <<listing, checkAliveInterval, listening, trace,
                 isAlive, readyState, clients, closeRuns,
                 missed, process>>

\* UnsubscribeOne with the topic deleted whatever its size
UnsubscribeOneDrops(st, c, topicName) ==
  IF ~MapHas(st.topics, topicName) THEN st
  ELSE [topics |-> MapDelete(st.topics, topicName),
        mine |-> st.mine \ {topicName},
        rounds |-> st.rounds + 1]

\* one round of the unsubscribe loop (lines 126-131)
UnsubscribeOne(st, c, topicName) ==
  IF ~MapHas(st.topics, topicName) THEN st
  ELSE LET subscribers == MapGet(st.topics, topicName) \ {c}
       IN  [topics |-> IF subscribers = {}
                         THEN MapDelete(st.topics, topicName)
                         ELSE MapSet(st.topics, topicName, subscribers),
            mine |-> st.mine \ {topicName},
            rounds |-> st.rounds + 1]

RECURSIVE UnsubscribeLoop(_, _, _, _, _)
UnsubscribeLoop(st, c, list, lo, hi) ==
  IF lo > hi THEN st
  ELSE IF lo = hi THEN UnsubscribeOne(st, c, list[lo])
  ELSE LET mid == (lo + hi) \div 2
           first == UnsubscribeLoop(st, c, list, lo, mid)
       IN  IF Computed(first) THEN UnsubscribeLoop(first, c, list, mid + 1, hi) ELSE st

\* case 'unsubscribe' (lines 123-134)
UnsubscribeResult(tp, mine, c, field) ==
  LET list == TopicList(field)
  IN  UnsubscribeLoop([topics |-> tp, mine |-> mine, rounds |-> 0],
                      c, list, 1, Len(list))

Unsubscribe(c, field) ==
  /\ listing = 1
  /\ Receiving(c)
  /\ LET r == UnsubscribeResult(topics, subscribedTopics[c], c, field)
     IN  /\ topics' = r.topics
         /\ subscribedTopics' = [subscribedTopics EXCEPT ![c] = r.mine]
         /\ last' = [Log("unsubscribe", c) EXCEPT
                      !.rounds = r.rounds,
                      !.changed = (r.topics # topics \/ r.mine # subscribedTopics[c])]
  /\ UNCHANGED <<listing, checkAliveInterval, listening, trace,
                 isAlive, readyState, clients, closeRuns,
                 missed, process>>

\* ---------------------------------------------------------------- delivery
\* ws close() and terminate(): a socket that is not yet CLOSED is CLOSING
\* from the call on; its 'close' event comes later, on its own.
CloseCall(rs) == IF rs = CLOSED THEN CLOSED ELSE CLOSING

\* send that leaves a socket that is not open alone
sendLeavesClosed(rs, buf, throws) ==
  IF rs # wsReadyStateOpen THEN [sent |-> FALSE, close |-> FALSE]
  ELSE IF buf > BackpressureLimit THEN [sent |-> FALSE, close |-> FALSE]
  ELSE [sent |-> TRUE, close |-> throws]

\* send with the threshold itself counted as too much
sendAtLimit(rs, buf, throws) ==
  IF rs # wsReadyStateOpen THEN [sent |-> FALSE, close |-> TRUE]
  ELSE IF buf >= BackpressureLimit THEN [sent |-> FALSE, close |-> FALSE]
  ELSE [sent |-> TRUE, close |-> throws]

\* send(conn, message) (lines 59-71) on a socket in readyState rs, with
\* bufferedAmount buf, where conn.send throws iff throws:
\*   sent: conn.send(...) was called with the message
\*   close: conn.close() was called
send(rs, buf, throws) ==
  IF rs # wsReadyStateOpen THEN [sent |-> FALSE, close |-> TRUE]
  ELSE IF buf > BackpressureLimit THEN [sent |-> FALSE, close |-> FALSE]
  ELSE [sent |-> TRUE, close |-> throws]

\* PublishTargets without the test receiver !== socket
PublishTargetsSelf(tp, c, message) ==
  LET t == message.topic
  IN  IF IsString(t) /\ Truthy(t) /\ MapHas(tp, t) THEN MapGet(tp, t) ELSE {}

\* the sockets a publish of message by c calls send() on (lines 111-118)
PublishTargets(tp, c, message) ==
  LET t == message.topic
  IN  IF IsString(t) /\ Truthy(t) /\ MapHas(tp, t) THEN MapGet(tp, t) \ {c} ELSE {}

\* --- history of the publishes (kept only where trace.on) ---
\* handled[p]: the envelopes of the publishes of p, in the order their
\* handlers ran; outbox[r]: what conn.send (line 67) was given for r, in
\* call order, each entry with its publisher and the position of its
\* publish in handled[publisher]
NoTrace(on) ==
  [on |-> on, handled |-> [c \in Conns |-> <<>>], outbox |-> [c \in Conns |-> <<>>]]

\* the publishes a trace holds
RECURSIVE SumLen(_, _)
SumLen(h, n) == IF n = 0 THEN 0 ELSE Len(h[n]) + SumLen(h, n - 1)
TraceLen(tr) == SumLen(tr.handled, NumConns)

\* Handed with the new entry put ahead of the ones already handed over
HandedAhead(box, e) == <<e>> \o box

\* conn.send(...) hands its message to the transport behind the ones
\* handed over before
Handed(box, e) == Append(box, e)

\* the trace after the publish of message by c reached conn.send for the
\* sockets of sent
Traced(tr, c, message, sent) ==
  IF ~tr.on THEN tr
  ELSE [on |-> TRUE,
        handled |-> [tr.handled EXCEPT ![c] = Append(@, message)],
        outbox |-> [r \in Conns |->
           IF r \in sent
             THEN Handed(tr.outbox[r],
                         [from |-> c, n |-> Len(tr.handled[c]) + 1, msg |-> message])
             ELSE tr.outbox[r]]]

\* Deliver that also empties the subscribedTopics of a target it closes
DeliverForgets(op, c, message, targets, eff) ==
  /\ readyState' = [r \in Conns |->
        IF r \in targets /\ eff[r].close
          THEN CloseCall(readyState[r]) ELSE readyState[r]]
  /\ last' = [Log(op, c) EXCEPT
        !.calls = [r \in Conns |-> IF r \in targets THEN 1 ELSE 0],
        !.wire = [r \in Conns |->
                    IF r \in targets /\ eff[r].sent THEN <<message>> ELSE <<>>],
        !.closeReq = {r \in targets : eff[r].close}]
  /\ trace' = IF op = "publish"
                THEN Traced(trace, c, message, {r \in targets : eff[r].sent})
                ELSE trace
  /\ subscribedTopics' = [r \in Conns |->
        IF r \in targets /\ eff[r].close THEN {} ELSE subscribedTopics[r]]
  /\ UNCHANGED <<listing, checkAliveInterval, listening,
                 topics, isAlive, clients,
                 closeRuns, missed, process>>

\* the effect of calling send(r, message) once on every socket r of
\* targets, with outcome eff[r]
Deliver(op, c, message, targets, eff) ==
  /\ readyState' = [r \in Conns |->
        IF r \in targets /\ eff[r].close
          THEN CloseCall(readyState[r]) ELSE readyState[r]]
  /\ last' = [Log(op, c) EXCEPT
        !.calls = [r \in Conns |-> IF r \in targets THEN 1 ELSE 0],
        !.wire = [r \in Conns |->
                    IF r \in targets /\ eff[r].sent THEN <<message>> ELSE <<>>],
        !.closeReq = {r \in targets : eff[r].close}]
  /\ trace' = IF op = "publish"
                THEN Traced(trace, c, message, {r \in targets : eff[r].sent})
                ELSE trace
  /\ UNCHANGED <<listing, checkAliveInterval, listening,
                 topics, subscribedTopics, isAlive, clients,
                 closeRuns, missed, process>>

\* case 'publish' (lines 110-121); cond[r] is what the transport of target
\* r holds when send() reaches it
Publish(c, message, cond) ==
  /\ listing = 1
  /\ Receiving(c)
  /\ trace.on => TraceLen(trace) < MaxTrace
  /\ LET targets == PublishTargets(topics, c, message)
         eff == [r \in targets |-> send(readyState[r], cond[r].buf, cond[r].throws)]
     IN  /\ DOMAIN cond = targets
         /\ Deliver("publish", c, message, targets, eff)

\* Ping that answers every tracked socket
PingBroadcast(c, cond) ==
  /\ listing = 1
  /\ Receiving(c)
  /\ LET eff == [r \in clients |-> send(readyState[r], cond[c].buf, cond[c].throws)]
     IN  /\ DOMAIN cond = {c}
         /\ Deliver("ping", c, PongMsg, clients, eff)

\* case 'ping' (lines 136-139)
Ping(c, cond) ==
  /\ listing = 1
  /\ Receiving(c)
  /\ LET eff == [r \in {c} |-> send(readyState[r], cond[r].buf, cond[r].throws)]
     IN  /\ DOMAIN cond = {c}
         /\ Deliver("ping", c, PongMsg, {c}, eff)

\* ------------------------------------------------ messages not handled
\* What a 'message' event may carry: text that is no JSON, or JSON for
\* null, a number, a string, an array, or an object whose type is absent,
\* a number, or a string.
JsonValue(kind, type) == [json |-> TRUE, kind |-> kind, type |-> type]
Inbound ==
  {[json |-> FALSE, kind |-> "none", type |-> Undefined],
   JsonValue("null", Undefined), JsonValue("number", Undefined),
   JsonValue("string", Undefined), JsonValue("array", Undefined),
   JsonValue("object", Undefined), JsonValue("object", Num(7)),
   JsonValue("object", Str("pong")), JsonValue("object", Str("Subscribe")),
   JsonValue("object", Str("ping"))}

\* JSON.parse(data.toString()) returns (lines 85-90)
Parses(data) == data.json

\* message?.type (line 92): undefined for null and for values that have
\* no such property
MessageType(data) == IF data.kind = "object" THEN data.type ELSE Undefined

\* the case labels of the switch (lines 93, 110, 123, 136)
CaseTypes == {Str("subscribe"), Str("publish"), Str("unsubscribe"), Str("ping")}

\* Discard that closes the sender of what it cannot handle
DiscardClosing(c, data) ==
  /\ listing = 1
  /\ Receiving(c)
  /\ ~Parses(data) \/ MessageType(data) \notin CaseTypes
  /\ readyState' = [readyState EXCEPT ![c] = CloseCall(@)]
  /\ last' = [Log("discard", c) EXCEPT !.closeReq = {c}]
  /\ UNCHANGED <<listing, checkAliveInterval, listening, trace,
                 topics, subscribedTopics, isAlive, clients,
                 closeRuns, missed, process>>

\* socket.on('message') for data that does not parse (lines 85-90) or whose
\* type is no case of the switch (default, lines 141-143): a log line
Discard(c, data) ==
  /\ listing = 1
  /\ Receiving(c)
  /\ ~Parses(data) \/ MessageType(data) \notin CaseTypes
  /\ last' = Log("discard", c)
  /\ UNCHANGED <<listing, checkAliveInterval, listening, trace,
                 topics, subscribedTopics, isAlive, readyState, clients,
                 closeRuns, missed, process>>

\* --------------------------------------------------------- close cleanup
\* CloseResult without the deletion of a topic left empty
CloseResultKeepsEmpty(tp, mine, c) ==
  [i \in 0..LongLen |->
     IF tp[i] # <<>> /\ (\E k \in mine : Key(k) = i)
       THEN <<tp[i][1] \ {c}>>
       ELSE tp[i]]

\* the registry after the forEach of socket.on('close') (lines 148-155)
CloseResult(tp, mine, c) ==
  [i \in 0..LongLen |->
     IF tp[i] # <<>> /\ (\E k \in mine : Key(k) = i)
       THEN IF tp[i][1] \ {c} = {} THEN <<>> ELSE <<tp[i][1] \ {c}>>
       ELSE tp[i]]

\* the peer closes, or the transport fails ('error' only logs): ws moves
\* the socket to CLOSING and emits 'close' afterwards
PeerClose(c) ==
  /\ process = "running"
  /\ c \in clients
  /\ readyState[c] = OPEN
  /\ readyState' = [readyState EXCEPT ![c] = CLOSING]
  /\ last' = Log("peerclose", c)
  /\ UNCHANGED <<listing, checkAliveInterval, listening, trace,
                 topics, subscribedTopics, isAlive, clients,
                 closeRuns, missed, process>>

\* socket.on('close') (lines 146-157); ws emits 'close' once per socket and
\* drops the socket from wss.clients on the same event
OnClose(c) ==
  /\ process = "running"
  /\ c \in clients
  /\ readyState[c] = CLOSING
  /\ readyState' = [readyState EXCEPT ![c] = CLOSED]
  /\ clients' = clients \ {c}
  /\ topics' = CloseResult(topics, subscribedTopics[c], c)
  /\ subscribedTopics' = [subscribedTopics EXCEPT ![c] = {}]
  /\ closeRuns' = [closeRuns EXCEPT ![c] = @ + 1]
  /\ last' = [Log("close", c) EXCEPT
                !.rounds = Cardinality({k \in subscribedTopics[c] : MapHas(topics, k)}),
                !.changed = (CloseResult(topics, subscribedTopics[c], c) # topics
                             \/ subscribedTopics[c] # {})]
  /\ UNCHANGED <<listing, checkAliveInterval, listening, trace,
                 isAlive, missed, process>>

\* -------------------------------------------------------------- heartbeat
\* Pong that leaves the liveness flag as it is
PongIgnored(c) ==
  /\ Receiving(c)
  /\ missed' = [missed EXCEPT ![c] = 0]
  /\ last' = Log("pong", c)
  /\ UNCHANGED <<listing, checkAliveInterval, listening, trace,
                 topics, subscribedTopics, isAlive, readyState, clients,
                 closeRuns, process>>

\* socket.on('pong') (line 81)
Pong(c) ==
  /\ Receiving(c)
  /\ isAlive' = [isAlive EXCEPT ![c] = TRUE]
  /\ missed' = [missed EXCEPT ![c] = 0]
  /\ last' = Log("pong", c)
  /\ UNCHANGED <<listing, checkAliveInterval, listening, trace,
                 topics, subscribedTopics, readyState, clients,
                 closeRuns, process>>

\* Terminated with the test of isAlive left out
TerminatedOnThrow(cl, alive, pingThrows) ==
  {s \in cl : s \in pingThrows}

\* the sockets one heartbeat tick terminates (lines 162-168): those found
\* with isAlive false, and those whose ping() throws
Terminated(cl, alive, pingThrows) ==
  {s \in cl : alive[s] = FALSE \/ s \in pingThrows}

\* the callback of checkAliveInterval (lines 161-169)
Tick(pingThrows) ==
  /\ process = "running"
  /\ checkAliveInterval = "set"
  /\ pingThrows \subseteq {s \in clients : isAlive[s]}
  /\ LET dead == Terminated(clients, isAlive, pingThrows)
     IN  /\ readyState' = [s \in Conns |->
               IF s \in dead THEN CloseCall(readyState[s]) ELSE readyState[s]]
         /\ last' = [Log("tick", 0) EXCEPT !.closeReq = dead]
  /\ isAlive' = [s \in Conns |-> IF s \in clients THEN FALSE ELSE isAlive[s]]
  /\ missed' = [s \in Conns |->
        IF s \in clients THEN Min(missed[s] + 1, MissedCap) ELSE missed[s]]
  /\ UNCHANGED <<listing, checkAliveInterval, listening, trace,
                 topics, subscribedTopics, clients, closeRuns, process>>

\* --------------------------------------------------------------- shutdown
\* Sigterm that leaves the heartbeat timer running
SigtermKeepsTimer ==
  /\ listing = 1
  /\ process = "running"
  /\ listening
  /\ listening' = FALSE
  /\ last' = Log("sigterm", 0)
  /\ UNCHANGED <<listing, checkAliveInterval, trace,
                 topics, subscribedTopics, isAlive, readyState, clients,
                 closeRuns, missed, process>>

\* process.on('SIGTERM') (lines 177-180): clearInterval, then server.close
\* stops the server from accepting connections and keeps the callback for
\* the time the server has closed.  A further SIGTERM changes nothing (the
\* timer is cleared, the server closing).
Sigterm ==
  /\ listing = 1
  /\ process = "running"
  /\ listening
  /\ checkAliveInterval' = "cleared"
  /\ listening' = FALSE
  /\ last' = Log("sigterm", 0)
  /\ UNCHANGED <<listing, trace,
                 topics, subscribedTopics, isAlive, readyState, clients,
                 closeRuns, missed, process>>

\* node calls the callback of server.close once the server has stopped
\* listening and every connection it accepted has ended, upgraded ones
\* included.  The connection of an OPEN socket has not ended; that of a
\* CLOSING one (closed by its peer, terminated, or asked to close) may have.
ServerDrained == ~listening /\ \A c \in Conns : readyState[c] # OPEN

\* the callback of server.close (lines 180-185): close() on every tracked
\* socket, then process.exit(0)
ServerClosed ==
  /\ listing = 1
  /\ process = "running"
  /\ ServerDrained
  /\ readyState' = [c \in Conns |->
        IF c \in clients THEN CloseCall(readyState[c]) ELSE readyState[c]]
  /\ last' = [Log("exit", 0) EXCEPT !.closeReq = clients]
  /\ process' = "exited"
  /\ UNCHANGED <<listing, checkAliveInterval, listening, trace,
                 topics, subscribedTopics, isAlive, clients,
                 closeRuns, missed>>

\* ------------------------------------------- handlers of the second listing
\* one round of the subscribe forEach (lines 260-269): no emptiness test
SubscribeOne2(st, c, topicName) ==
  IF ~IsString(topicName) THEN st
  ELSE LET subscribers == IF MapHas(st.topics, topicName)
                            THEN MapGet(st.topics, topicName) ELSE {}
       IN  [topics |-> MapSet(st.topics, topicName, subscribers \cup {c}),
            mine |-> st.mine \cup {topicName},
            rounds |-> st.rounds + 1]

RECURSIVE SubscribeLoop2(_, _, _, _, _)
SubscribeLoop2(st, c, list, lo, hi) ==
  IF lo > hi THEN st
  ELSE IF lo = hi THEN SubscribeOne2(st, c, list[lo])
  ELSE LET mid == (lo + hi) \div 2
           first == SubscribeLoop2(st, c, list, lo, mid)
       IN  IF Computed(first) THEN SubscribeLoop2(first, c, list, mid + 1, hi) ELSE st

\* (message.topics || []).forEach throws a TypeError, which nothing
\* catches, when topics is present and not an array
ForEachThrows(field) == field.present /\ ~field.isArray

\* case 'subscribe' (lines 257-271): no cap on the list
Subscribe2(c, field) ==
  /\ listing = 2
  /\ Receiving(c)
  /\ IF ForEachThrows(field)
       THEN /\ process' = "crashed"
            /\ last' = Log("subscribe", c)
            /\ UNCHANGED <<topics, subscribedTopics>>
       ELSE LET r == SubscribeLoop2([topics |-> topics, mine |-> subscribedTopics[c],
                                     rounds |-> 0],
                                    c, field.items, 1, Len(field.items))
            IN  /\ topics' = r.topics
                /\ subscribedTopics' = [subscribedTopics EXCEPT ![c] = r.mine]
                /\ last' = [Log("subscribe", c) EXCEPT
                      !.rounds = r.rounds,
                      !.changed = (r.topics # topics \/ r.mine # subscribedTopics[c])]
                /\ UNCHANGED process
  /\ UNCHANGED <<listing, checkAliveInterval, listening, trace,
                 isAlive, readyState, clients, closeRuns, missed>>

\* one round of the unsubscribe forEach (lines 292-295) on
\* st = [topics, rounds]: the socket leaves the subscriber set and nothing
\* else happens
UnsubscribeOne2(st, c, topicName) ==
  IF ~MapHas(st.topics, topicName) THEN st
  ELSE [topics |-> MapSet(st.topics, topicName, MapGet(st.topics, topicName) \ {c}),
        rounds |-> st.rounds + 1]

RECURSIVE UnsubscribeLoop2(_, _, _, _, _)
UnsubscribeLoop2(st, c, list, lo, hi) ==
  IF lo > hi THEN st
  ELSE IF lo = hi THEN UnsubscribeOne2(st, c, list[lo])
  ELSE LET mid == (lo + hi) \div 2
           first == UnsubscribeLoop2(st, c, list, lo, mid)
       IN  IF Computed(first) THEN UnsubscribeLoop2(first, c, list, mid + 1, hi) ELSE st

\* case 'unsubscribe' (lines 289-297)
Unsubscribe2(c, field) ==
  /\ listing = 2
  /\ Receiving(c)
  /\ IF ForEachThrows(field)
       THEN /\ process' = "crashed"
            /\ last' = Log("unsubscribe", c)
            /\ UNCHANGED topics
       ELSE LET r == UnsubscribeLoop2([topics |-> topics, rounds |-> 0],
                                      c, field.items, 1, Len(field.items))
            IN  /\ topics' = r.topics
                /\ last' = [Log("unsubscribe", c) EXCEPT
                      !.rounds = r.rounds, !.changed = (r.topics # topics)]
                /\ UNCHANGED process
  /\ UNCHANGED <<listing, checkAliveInterval, listening, trace,
                 subscribedTopics, isAlive, readyState, clients,
                 closeRuns, missed>>

\* ---------------------------------------------------------- specification
InitRelay ==
  /\ topics = EmptyMap
  /\ subscribedTopics = [c \in Conns |-> {}]
  /\ isAlive = [c \in Conns |-> TRUE]
  /\ readyState = [c \in Conns |-> CONNECTING]
  /\ clients = {}
  /\ closeRuns = [c \in Conns |-> 0]
  /\ missed = [c \in Conns |-> 0]
  /\ process = "running"
  /\ checkAliveInterval = "set"
  /\ listening = TRUE
  /\ last = Log("init", 0)

Init == listing = 1 /\ InitRelay /\ trace = NoTrace(FALSE)

InitListings == listing \in {1, 2} /\ InitRelay /\ trace = NoTrace(FALSE)

\* the first listing, with the history of the publishes kept
InitOrder == listing = 1 /\ InitRelay /\ trace = NoTrace(TRUE)

\* the handlers both listings share
NextShared ==
  \/ \E c \in Conns : PeerClose(c)
  \/ \E c \in Conns : OnClose(c)
  \/ \E c \in Conns : Pong(c)
  \/ \E pingThrows \in SUBSET Conns : Tick(pingThrows)

Next ==
  \/ \E c \in Few, url \in RequestUrls, origin \in OriginHeaders :
       Upgrade(c, url, origin)
  \/ \E c \in Conns, field \in TopicsFields : Subscribe(c, field)
  \/ \E c \in Conns, field \in TopicsFields : Unsubscribe(c, field)
  \/ \E c \in Conns, t \in PublishTopics, p \in Payloads :
       \E cond \in [PublishTargets(topics, c, PublishMsg(t, p)) -> Conditions] :
         Publish(c, PublishMsg(t, p), cond)
  \/ \E c \in Conns : \E cond \in [{c} -> Conditions] : Ping(c, cond)
  \/ \E c \in Conns, data \in Inbound : Discard(c, data)
  \/ NextShared

\* the first listing with its SIGTERM handler
NextShutdown ==
  \/ Next
  \/ Sigterm
  \/ ServerClosed

\* the handlers on the way of a publish, for the runs that keep the history
NextOrder ==
  \/ \E c \in Few, url \in {"/ws"}, origin \in {<<>>} : Upgrade(c, url, origin)
  \/ \E c \in Conns, field \in OrderFields : Subscribe(c, field)
  \/ \E c \in Conns, field \in OrderFields : Unsubscribe(c, field)
  \/ \E c \in Conns, t \in OrderTopics, p \in Payloads :
       \E cond \in [PublishTargets(topics, c, PublishMsg(t, p)) -> Conditions] :
         Publish(c, PublishMsg(t, p), cond)
  \/ \E c \in Conns : PeerClose(c)
  \/ \E c \in Conns : OnClose(c)

\* the handlers of either listing that change the registry, with the long
\* topics list among the inputs of subscribe
NextListings ==
  \/ \E c \in Few, url \in RequestUrls, origin \in OriginHeaders :
       Upgrade(c, url, origin)
  \/ \E c \in Few, url \in RequestUrls, origin \in OriginHeaders :
       Upgrade2(c, url, origin)
  \/ \E c \in Conns, field \in CapFields : Subscribe(c, field)
  \/ \E c \in Conns, field \in UnsubFields : Unsubscribe(c, field)
  \/ \E c \in Conns, field \in CapFields : Subscribe2(c, field)
  \/ \E c \in Conns, field \in FewFields : Unsubscribe2(c, field)
  \/ \E c \in Conns : PeerClose(c)
  \/ \E c \in Conns : OnClose(c)

\* a publish and what leads to one, with every socket of the model
NextFanout ==
  \/ \E c \in Conns, url \in {"/ws"}, origin \in {<<>>} : Upgrade(c, url, origin)
  \/ \E c \in Conns, field \in OrderFields : Subscribe(c, field)
  \/ \E c \in Conns, t \in {T(1)}, p \in {1} :
       \E cond \in [PublishTargets(topics, c, PublishMsg(t, p)) -> Conditions] :
         Publish(c, PublishMsg(t, p), cond)
  \/ \E c \in Conns : PeerClose(c)
  \/ \E c \in Conns : OnClose(c)

\* the first listing
Spec == Init /\ [][Next]_vars

\* the first listing, a publisher and several subscribers
SpecFanout == Init /\ [][NextFanout]_vars

\* either listing, the handlers that change the registry
SpecListings == InitListings /\ [][NextListings]_vars

\* the first listing, where a socket that is CLOSING gets its 'close' event
FairSpec == Spec /\ \A c \in Conns : WF_vars(OnClose(c))

\* the first listing with its SIGTERM handler
SpecShutdown == Init /\ [][NextShutdown]_vars

\* the same, where a CLOSING socket gets its 'close' event and the callback
\* of server.close runs once the server has closed
FairSpecShutdown ==
  SpecShutdown /\ WF_vars(ServerClosed) /\ \A c \in Conns : WF_vars(OnClose(c))

\* the first listing with the history of its publishes
SpecOrder == InitOrder /\ [][NextOrder]_vars

TypeOK ==
  /\ listing \in {1, 2}
  /\ clients \subseteq Conns
  /\ \A c \in Conns : readyState[c] \in {CONNECTING, OPEN, CLOSING, CLOSED}
  /\ process \in {"running", "crashed", "exited"}
  /\ checkAliveInterval \in {"set", "cleared"}
  /\ listening \in BOOLEAN
  /\ TraceLen(trace) <= MaxTrace

\* ================================================================= claims
\* subscribers(T): the Set the registry holds for T, empty when it holds none
Subscribers(tp, k) == IF MapHas(tp, k) THEN MapGet(tp, k) ELSE {}

\* the names a subscribe of list applies when it keeps the first n entries
Applied(list, n) ==
  {list[i] : i \in {j \in 1..Len(list) : j <= n /\ IsString(list[j]) /\ Truthy(list[j])}}

\* C1: every topic present in the registry has a non-empty subscriber set.
C1_TopicsNonEmpty ==
  \A k \in MapKeys(topics) : MapGet(topics, k) # {}

\* C2: a connection is in subscribers(T) exactly when T is in its own
\* subscribedTopics set.
C2_RegistryAgrees ==
  \A c \in Conns, k \in Names :
    (c \in Subscribers(topics, k)) <=> (k \in subscribedTopics[c])

\* C3: a publish by P of an envelope with a non-empty string topic T calls
\* send once, with that envelope, for every connection in subscribers(T)
\* other than P and for no other connection; with T absent from the
\* registry it calls send for nobody.
C3_PublishFanout ==
  [][last'.op = "publish" =>
       \A t \in PublishTopics, p \in Payloads :
         \A cond \in [PublishTargets(topics, last'.by, PublishMsg(t, p)) -> Conditions] :
           (Publish(last'.by, PublishMsg(t, p), cond) /\ IsString(t) /\ Truthy(t)) =>
             \A r \in Conns :
               /\ last'.calls[r] =
                    IF r \in Subscribers(topics, t) /\ r # last'.by THEN 1 ELSE 0
               /\ last'.wire[r] \in {<<>>, <<PublishMsg(t, p)>>}
               /\ last'.calls[r] = 0 => last'.wire[r] = <<>>]_vars

\* a publisher subscribed to its topic: the other subscriber got the
\* envelope, the publisher got nothing
C3_Witness ==
  /\ last.op = "publish"
  /\ T(1) \in subscribedTopics[last.by]
  /\ last.calls[last.by] = 0
  /\ \E r \in Conns \ {last.by} : last.wire[r] = <<PublishMsg(T(1), 1)>>

\* C4: the close cleanup of a connection runs exactly once, and right
\* after it the connection is in no subscriber set, the topics it alone
\* held are gone and its own set is empty.
C4_CloseCleanup ==
  /\ [](\A c \in Conns : closeRuns[c] = IF readyState[c] = CLOSED THEN 1 ELSE 0)
  /\ [][last'.op = "close" =>
          /\ \A k \in Names : last'.by \notin Subscribers(topics', k)
          /\ \A k \in Names :
               Subscribers(topics, k) = {last'.by} => ~MapHas(topics', k)
          /\ subscribedTopics'[last'.by] = {}]_vars

\* a close that removed subscriptions while another connection keeps its own
C4_Witness ==
  /\ last.op = "close"
  /\ last.changed
  /\ closeRuns[last.by] = 1
  /\ \E d \in Conns \ {last.by} : Subscribers(topics, T(1)) = {d}

\* C5: a tracked connection that two consecutive heartbeat ticks find
\* without a pong in between is terminated at the second tick, and its
\* close cleanup then takes it out of every topic.
C5_Heartbeat ==
  /\ [](\A c \in clients : missed[c] >= 2 => readyState[c] = CLOSING)
  /\ [][last'.op = "tick" =>
          \A c \in clients : missed[c] >= 1 => c \in last'.closeReq]_vars
  /\ \A c \in Conns :
       (c \in clients /\ missed[c] >= 2) ~>
         (c \notin clients /\ \A k \in Names : c \notin Subscribers(topics, k))

\* a subscribed connection closed after two unanswered probes
C5_Witness ==
  /\ last.op = "close"
  /\ last.changed
  /\ missed[last.by] >= 2
  /\ \A k \in Names : last.by \notin Subscribers(topics, k)

\* C6: the gate hands an upgrade request to ws exactly when its URL
\* parses, its path is the configured one and its Origin header is absent
\* or in the allowed set; otherwise no Connection is made and the relay
\* state stays as it was.
C6_Admission ==
  [][last'.op = "upgrade" =>
       \A url \in RequestUrls, origin \in OriginHeaders :
         Upgrade(last'.by, url, origin) =>
           /\ last'.handoff <=>
                /\ UrlParses(url)
                /\ UrlPathname(url) = WS_PATH
                /\ origin = <<>> \/ origin[1] \in ALLOWED_ORIGINS
           /\ ~last'.handoff => UNCHANGED relay]_vars

\* C7: a subscribe applies the first 64 entries of its topics list and no
\* later one, and of those only the non-empty strings.
C7_SubscribeCap ==
  [][last'.op = "subscribe" =>
       \A field \in CapFields :
         (Subscribe(last'.by, field) \/ Subscribe2(last'.by, field)) =>
           LET c == last'.by
               applied == Applied(TopicList(field), 64)
           IN  /\ subscribedTopics'[c] = subscribedTopics[c] \cup applied
               /\ MapKeys(topics') = MapKeys(topics) \cup applied
               /\ \A k \in Names :
                    Subscribers(topics', k) =
                      IF k \in applied THEN Subscribers(topics, k) \cup {c}
                      ELSE Subscribers(topics, k)]_vars

\* C8: send to an open target skips the delivery when the target's
\* bufferedAmount is above 1,000,000 and performs it otherwise; a skipped
\* delivery closes nothing and changes no subscription.
C8_Backpressure ==
  /\ [][last'.op = "publish" =>
          \A t \in PublishTopics, p \in Payloads :
            \A cond \in [PublishTargets(topics, last'.by, PublishMsg(t, p)) -> Conditions] :
              Publish(last'.by, PublishMsg(t, p), cond) =>
                \A r \in DOMAIN cond :
                  readyState[r] = OPEN =>
                    IF cond[r].buf > 1000000
                      THEN /\ last'.wire[r] = <<>>
                           /\ r \notin last'.closeReq
                           /\ readyState'[r] = OPEN
                           /\ UNCHANGED <<topics, subscribedTopics, clients>>
                      ELSE last'.wire[r] = <<PublishMsg(t, p)>>]_vars
  /\ [][last'.op = "ping" =>
          \A cond \in [{last'.by} -> Conditions] :
            Ping(last'.by, cond) =>
              LET r == last'.by
              IN  readyState[r] = OPEN =>
                    IF cond[r].buf > 1000000
                      THEN /\ last'.wire[r] = <<>>
                           /\ r \notin last'.closeReq
                           /\ readyState'[r] = OPEN
                           /\ UNCHANGED <<topics, subscribedTopics, clients>>
                      ELSE last'.wire[r] = <<PongMsg>>]_vars

\* a subscriber skipped for backpressure: send was called for it, nothing
\* went to its transport, and it is open and subscribed as before
C8_Witness ==
  /\ last.op = "publish"
  /\ \E r \in Conns :
       /\ last.calls[r] = 1
       /\ last.wire[r] = <<>>
       /\ r \notin last.closeReq
       /\ readyState[r] = OPEN
       /\ r \in Subscribers(topics, T(1))

\* C9: subscribing a connection to topics it is subscribed to changes
\* nothing, and a subscribe adds the connection to a subscriber set at most
\* once however often its list repeats the name.
C9_SubscribeIdempotent ==
  [][last'.op = "subscribe" =>
       \A field \in TopicsFields :
         Subscribe(last'.by, field) =>
           LET c == last'.by
               named == Applied(TopicList(field), 64)
           IN  /\ (\A k \in named : c \in Subscribers(topics, k)
                                     /\ k \in subscribedTopics[c])
                    => UNCHANGED <<topics, subscribedTopics>>
               /\ \A k \in named :
                    Cardinality(Subscribers(topics', k)) =
                      Cardinality(Subscribers(topics, k))
                      + (IF c \in Subscribers(topics, k) THEN 0 ELSE 1)]_vars

\* a subscribe that named a topic twice, or one the connection held, with
\* another subscriber on the topic: the set holds each of the two once
C9_Witness ==
  /\ last.op = "subscribe"
  /\ last.rounds = 2
  /\ ~last.changed
  /\ Cardinality(Subscribers(topics, T(1))) = 2

\* C10: an unsubscribe that names only topics the connection never joined
\* changes neither the registry nor any subscribedTopics set.
C10_UnsubscribeNeverJoined ==
  [][last'.op = "unsubscribe" =>
       \A field \in TopicsFields :
         Unsubscribe(last'.by, field) =>
           LET c == last'.by
               list == TopicList(field)
           IN  (\A i \in 1..Len(list) :
                  /\ c \notin Subscribers(topics, list[i])
                  /\ list[i] \notin subscribedTopics[c])
               => UNCHANGED <<topics, subscribedTopics>>]_vars

\* an unsubscribe that found its topic in the registry, held by another
\* connection, and changed nothing
C10_Witness ==
  /\ last.op = "unsubscribe"
  /\ last.rounds >= 1
  /\ ~last.changed
  /\ subscribedTopics[last.by] = {}
  /\ Subscribers(topics, T(1)) # {}

\* C11: an inbound message that is no JSON, or whose type is none of
\* subscribe, unsubscribe, publish and ping, changes neither the registry
\* nor any subscribedTopics set or liveness flag, sends nothing, asks for no
\* close and leaves the sender's readyState as it was.
C11_DiscardNoEffect ==
  [][last'.op = "discard" =>
       /\ \E data \in Inbound :
            /\ ~Parses(data) \/ MessageType(data) \notin CaseTypes
            /\ Discard(last'.by, data)
       /\ UNCHANGED <<topics, subscribedTopics, isAlive, readyState, clients>>
       /\ last'.calls = NoCalls
       /\ last'.wire = NoWire
       /\ last'.closeReq = {}]_vars

\* a subscribed, open connection whose message was discarded
C11_Witness ==
  /\ last.op = "discard"
  /\ readyState[last.by] = OPEN
  /\ last.by \in Subscribers(topics, T(1))

\* C12: the process exits only from the callback that asks every tracked
\* connection to close, and only after the heartbeat timer was cleared;
\* once the timer is cleared no heartbeat tick runs.
C12_ShutdownOrder ==
  /\ [](process = "exited" => checkAliveInterval = "cleared")
  /\ [][last'.op = "sigterm" =>
          checkAliveInterval' = "cleared" /\ process' = "running"]_vars
  /\ [][checkAliveInterval = "cleared" => last'.op # "tick"]_vars
  /\ [][process' = "exited" =>
          /\ checkAliveInterval = "cleared"
          /\ last'.op = "exit"
          /\ last'.closeReq = clients
          /\ \A c \in clients : readyState'[c] \in {CLOSING, CLOSED}]_vars

\* the process has exited and its last handler asked a tracked connection
\* to close
C12_Witness ==
  /\ process = "exited"
  /\ last.op = "exit"
  /\ last.closeReq # {}

\* C13: an unsubscribe processes only the first 64 entries of its topics
\* list: a topic named only at position 65 or later stays subscribed.
C13_UnsubscribeCap ==
  [][last'.op = "unsubscribe" /\ listing = 1 =>
       \A field \in UnsubFields :
         Unsubscribe(last'.by, field) =>
           LET c == last'.by
               list == TopicList(field)
               early == {list[i] : i \in 1..Min(Len(list), 64)}
           IN  \A k \in subscribedTopics[c] \ early :
                 /\ k \in subscribedTopics'[c]
                 /\ c \in Subscribers(topics', k)]_vars

\* C14: what a subscriber's transport was handed from one publisher is a
\* subsequence of that publisher's publishes in the order they were
\* handled: each entry is the envelope of the publish it stems from, and
\* entries of one publisher come in the order of their publishes, none twice.
C14_OrderPreserved ==
  \A r \in Conns :
    LET box == trace.outbox[r]
    IN  \A i \in 1..Len(box) :
          /\ box[i].n \in 1..Len(trace.handled[box[i].from])
          /\ trace.handled[box[i].from][box[i].n] = box[i].msg
          /\ \A j \in (i + 1)..Len(box) :
                box[i].from = box[j].from => box[i].n < box[j].n

\* a subscriber that was handed the first and the third publish of a
\* publisher, with different envelopes, and not the second
C14_Witness ==
  \E p, r \in Conns :
    /\ Len(trace.handled[p]) = 3
    /\ Len(trace.outbox[r]) = 2
    /\ trace.outbox[r][1].from = p /\ trace.outbox[r][1].n = 1
    /\ trace.outbox[r][2].from = p /\ trace.outbox[r][2].n = 3
    /\ trace.outbox[r][1].msg # trace.outbox[r][2].msg

\* C15: a ping calls send once, for its sender: the sender's transport gets
\* one pong when the sender is open and not above the backpressure
\* threshold and nothing otherwise, no other connection gets anything, and
\* registry, subscribedTopics sets and liveness flags are unchanged.
C15_PingReply ==
  [][last'.op = "ping" =>
       \A cond \in [{last'.by} -> Conditions] :
         Ping(last'.by, cond) =>
           LET c == last'.by
           IN  /\ last'.calls = [r \in Conns |-> IF r = c THEN 1 ELSE 0]
               /\ \A r \in Conns \ {c} :
                    last'.wire[r] = <<>> /\ readyState'[r] = readyState[r]
               /\ last'.wire[c] =
                    IF readyState[c] = OPEN /\ cond[c].buf <= 1000000
                      THEN <<PongMsg>> ELSE <<>>
               /\ UNCHANGED <<topics, subscribedTopics, isAlive, clients>>]_vars

\* a ping answered with a pong while another connection is open and
\* subscribed
C15_Witness ==
  /\ last.op = "ping"
  /\ last.wire[last.by] = <<PongMsg>>
  /\ isAlive[last.by] = FALSE
  /\ \E r \in Conns \ {last.by} :
       readyState[r] = OPEN /\ r \in Subscribers(topics, T(1))

\* C16: in a publish fan-out a close is requested on exactly the targets
\* that are not open or whose conn.send throws; a target that is not open
\* is sent nothing; every other target not above the backpressure
\* threshold is sent the envelope; no other socket changes its readyState
\* (the publisher stays as it was) and no membership changes.
C16_FailureContained ==
  [][last'.op = "publish" =>
       \A t \in {T(1)}, p \in {1} :
         \A cond \in [PublishTargets(topics, last'.by, PublishMsg(t, p)) -> Conditions] :
           Publish(last'.by, PublishMsg(t, p), cond) =>
             LET failed == {r \in DOMAIN cond :
                              \/ readyState[r] # OPEN
                              \/ cond[r].buf <= 1000000 /\ cond[r].throws}
             IN  /\ last'.closeReq = failed
                 /\ \A r \in failed : readyState[r] # OPEN => last'.wire[r] = <<>>
                 /\ \A r \in (DOMAIN cond) \ failed :
                      cond[r].buf <= 1000000 => last'.wire[r] = <<PublishMsg(t, p)>>
                 /\ \A r \in Conns \ failed : readyState'[r] = readyState[r]
                 /\ UNCHANGED <<topics, subscribedTopics, clients>>]_vars

\* a fan-out in which one subscriber was asked to close and another was
\* sent the envelope, both still in the topic
C16_Witness ==
  /\ last.op = "publish"
  /\ \E r, q \in Subscribers(topics, T(1)) :
       /\ r \in last.closeReq /\ last.wire[r] = <<>>
       /\ q \notin last.closeReq /\ last.wire[q] # <<>>
  /\ readyState[last.by] = OPEN

\* C17: a tracked connection that answered every probe so far (no probe
\* since its last pong, or none yet) has its liveness flag true, and a
\* heartbeat tick whose ping to it succeeds neither terminates it nor
\* changes its readyState; a connection starts with the flag true.
C17_ResponsiveSurvives ==
  /\ [](\A c \in clients : missed[c] = 0 => isAlive[c] = TRUE)
  /\ [][last'.op = "tick" =>
          \A pingThrows \in SUBSET Conns :
            Tick(pingThrows) =>
              \A c \in clients :
                missed[c] = 0 /\ c \notin pingThrows =>
                  /\ c \notin last'.closeReq
                  /\ readyState'[c] = readyState[c]
                  /\ c \in clients']_vars
  /\ [][last'.op = "upgrade" /\ last'.handoff =>
          isAlive'[last'.by] = TRUE /\ missed'[last'.by] = 0]_vars

\* a tick that terminated a connection with two probes unanswered and
\* left alone an open one that had answered the probe before
C17_Witness ==
  /\ last.op = "tick"
  /\ \E c, d \in clients :
       /\ readyState[c] = OPEN /\ missed[c] = 1 /\ c \notin last.closeReq
       /\ d \in last.closeReq /\ missed[d] = 2

\* C18: a publish changes neither the registry nor any subscribedTopics
\* set, liveness flag or wss.clients, whatever happens to its deliveries,
\* and calls send for the publisher not at all.
C18_PublishFrame ==
  [][last'.op = "publish" =>
       /\ UNCHANGED <<topics, subscribedTopics, isAlive, clients>>
       /\ last'.calls[last'.by] = 0
       /\ last'.wire[last'.by] = <<>>
       /\ last'.by \notin last'.closeReq]_vars

\* a publish by a subscriber of the topic, with a target that was asked to
\* close and is in the topic as before
C18_Witness ==
  /\ last.op = "publish"
  /\ last.by \in Subscribers(topics, T(1))
  /\ \E r \in last.closeReq :
       r \in Subscribers(topics, T(1)) /\ T(1) \in subscribedTopics[r]

\* C19: a connection whose close cleanup has run is in no subscriber set
\* and holds no subscription.
C19_ClosedStaysOut ==
  \A c \in Conns :
    closeRuns[c] >= 1 =>
      /\ subscribedTopics[c] = {}
      /\ \A i \in 0..LongLen : topics[i] # <<>> => c \notin topics[i][1]

\* a subscribe handled after another connection's close cleanup, the topic
\* still in the registry
C19_Witness ==
  /\ last.op = "subscribe"
  /\ last.changed
  /\ \E c \in Conns \ {last.by} : closeRuns[c] = 1
  /\ Subscribers(topics, T(1)) = {last.by}

\* C20: once SIGTERM was handled the process eventually exits.
C20_ShutdownCompletes ==
  (checkAliveInterval = "cleared") ~> (process = "exited")

====
